---- MODULE Spec2Model ----
(***************************************************************************)
(* Model of the interval-scheduling core of src/app.py:                    *)
(*   calculate_gaps, intersect_two_gap_lists, find_mutual_gaps and the     *)
(*   part of the page script that chains them.                             *)
(*                                                                         *)
(* Times are decimal hours in the source (hour + minute/60).  The model    *)
(* counts minutes since midnight: 8.0 h = 480, 0.25 h = 15, 0.5 h = 30.    *)
(* Every time point used below is a minute value on which the source's     *)
(* floating-point comparisons (>, >= 0.25, >= 0.5) agree with the exact    *)
(* comparison of the minute counts.                                        *)
(***************************************************************************)
EXTENDS Integers, Sequences, FiniteSets, TLC

VARIABLES
    schedule,       \* calculate_gaps: the argument, a sequence of events
    pc,             \* calculate_gaps: "idle", "day", "event" or "done"
    day_idx,        \* calculate_gaps: position of `day` in DAYS_OF_WEEK
    day_events,     \* calculate_gaps: the sorted events of the current day
    ev_idx,         \* calculate_gaps: position of `event` in day_events
    current_time,   \* calculate_gaps: the sweep cursor
    gaps,           \* calculate_gaps: the output list
    schedules_map,  \* page script: the schedules of the compared people
    all_gap_lists,  \* find_mutual_gaps: the argument
    mpc,            \* find_mutual_gaps: "idle", "calc", "start", "loop", "warn" or "done"
    next_idx,       \* find_mutual_gaps: position of next_list in all_gap_lists
    current_mutual, \* find_mutual_gaps: the running intersection / the result
    data,           \* process_s3_schedule: the raw records
    week_date_str,  \* process_s3_schedule: <<monday>> for a target week, <<>> for None
    filtered_items, \* process_s3_schedule: the records kept by the first loop
    item_idx,       \* process_s3_schedule: position of `item` in the current loop
    spc             \* process_s3_schedule: "idle", "filter", "process" or "done"

vars == <<schedule, pc, day_idx, day_events, ev_idx, current_time, gaps,
          schedules_map, all_gap_lists, mpc, next_idx, current_mutual,
          data, week_date_str, filtered_items, item_idx, spc>>

gapVars == <<schedule, pc, day_idx, day_events, ev_idx, current_time, gaps>>
mutualVars == <<schedules_map, all_gap_lists, mpc, next_idx, current_mutual>>
s3Vars == <<data, week_date_str, filtered_items, item_idx, spc>>

-----------------------------------------------------------------------------
(* Program constants *)

DAYS_OF_WEEK == <<"Mon", "Tue", "Wed", "Thu", "Fri">>

DayStart == 480      \* current_time = 8.0
DayEnd == 1200       \* end_hour = 20 (the rendered window; calculate_gaps never reads it)
MinGap == 15         \* duration >= 0.25
MinMutual == 30      \* end - start >= 0.5

-----------------------------------------------------------------------------
(* Bounds *)

MaxEvents == 3       \* longest enumerated schedule handed to calculate_gaps
MaxLists == 3        \* longest enumerated argument of a direct find_mutual_gaps call
MaxItems == 3        \* longest enumerated data handed to process_s3_schedule

-----------------------------------------------------------------------------
(* Helpers *)

Max(a, b) == IF a >= b THEN a ELSE b
Min(a, b) == IF a <= b THEN a ELSE b

SeqsUpTo(S, n) == UNION {[1..k -> S] : k \in 0..n}

Event(d, s, e) == [day |-> d, start |-> s, end |-> e]

-----------------------------------------------------------------------------
(* calculate_gaps *)

\* The dict appended to gaps; subject, type and is_gap are constant strings
\* determined by is_mutual and are left out.
GapRecord(d, s, e) ==
    [day |-> d, start |-> s, end |-> e, duration |-> e - s, is_mutual |-> FALSE]

\* [e for e in schedule if e['day'] == day]
DayEventsMixed(sched, d) == sched
DayEvents(sched, d) == SelectSeq(sched, LAMBDA e : e.day = d)

\* sorted(..., key=lambda x: x['start']): stable, the key is start alone.
InsertByStart(sorted, e) ==
    LET pos == Cardinality({j \in 1..Len(sorted) : sorted[j].start <= e.start})
    IN  SubSeq(sorted, 1, pos) \o <<e>> \o SubSeq(sorted, pos + 1, Len(sorted))

RECURSIVE SortByStartRec(_)
SortByStartRec(s) ==
    IF s = <<>> THEN <<>>
    ELSE InsertByStart(SortByStartRec(SubSeq(s, 1, Len(s) - 1)), s[Len(s)])

SortByStartNone(s) == s
SortByStart(s) == SortByStartRec(s)

\* if duration >= 0.25
LongEnoughStrict(duration) == duration > MinGap
LongEnough(duration) == duration >= MinGap

\* current_time = max(current_time, event['end'])
AdvanceCursorNoMax(ct, event) == event.end
AdvanceCursorStuck(ct, event) == ct
AdvanceCursor(ct, event) == Max(ct, event.end)

\* The body of `for event in day_events`, on the pair (current_time, gaps).
SweepBody(d, ct, gs, event) ==
    [gaps |-> IF event.start > ct /\ LongEnough(event.start - ct)
                THEN Append(gs, GapRecord(d, ct, event.start))
                ELSE gs,
     current_time |-> AdvanceCursor(ct, event)]

RECURSIVE SweepFrom(_, _, _, _, _)
SweepFrom(d, evs, i, ct, gs) ==
    IF i > Len(evs) THEN gs
    ELSE LET r == SweepBody(d, ct, gs, evs[i])
         IN  SweepFrom(d, evs, i + 1, r.current_time, r.gaps)

RECURSIVE GapsFromDay(_, _, _)
GapsFromDay(sched, di, gs) ==
    IF di > Len(DAYS_OF_WEEK) THEN gs
    ELSE GapsFromDay(sched, di + 1,
             SweepFrom(DAYS_OF_WEEK[di],
                       SortByStart(DayEvents(sched, DAYS_OF_WEEK[di])),
                       1, DayStart, gs))

\* calculate_gaps as a function of its argument.
CalculateGaps(sched) == GapsFromDay(sched, 1, <<>>)

-----------------------------------------------------------------------------
(* Inputs of calculate_gaps *)

\* Minute values around the start of the window, the 15-minute threshold and
\* the end of the window (07:00, 08:00, 08:14, 08:15, 20:00).
GapTimes == {420, 480, 494, 495, 1200}

\* Busy intervals (start < end): every interval over GapTimes on Monday, the
\* classes that lie past the end of the window, and one class on two other days.
EventPool ==
    {ev \in [day : {"Mon"}, start : GapTimes, end : GapTimes] : ev.start < ev.end}
        \cup {Event("Mon", 1200, 1260), Event("Mon", 1260, 1320),
              Event("Wed", 495, 1200), Event("Tue", 1200, 1260)}

\* Schedules named in the specification's scenarios.
ScenarioBackToBack == <<Event("Mon", 540, 600), Event("Mon", 600, 690)>>
ScenarioA == <<Event("Mon", 540, 630), Event("Mon", 780, 840)>>
ScenarioB == <<Event("Mon", 570, 660), Event("Mon", 750, 810)>>

GapSchedules == SeqsUpTo(EventPool, MaxEvents) \cup {ScenarioBackToBack, ScenarioA, ScenarioB}

-----------------------------------------------------------------------------
(* calculate_gaps, one loop iteration per step *)

InitGaps ==
    /\ schedule \in GapSchedules
    /\ pc = "day"
    /\ day_idx = 1
    /\ day_events = <<>>
    /\ ev_idx = 1
    /\ current_time = DayStart
    /\ gaps = <<>>
    /\ schedules_map = <<>>
    /\ all_gap_lists = <<>>
    /\ mpc = "idle"
    /\ next_idx = 0
    /\ current_mutual = <<>>
    /\ data = <<>>
    /\ week_date_str = <<>>
    /\ filtered_items = <<>>
    /\ item_idx = 1
    /\ spc = "idle"

\* for day in DAYS_OF_WEEK: day_events = sorted(...); current_time = 8.0
StartDay ==
    /\ pc = "day"
    /\ day_idx <= Len(DAYS_OF_WEEK)
    /\ day_events' = SortByStart(DayEvents(schedule, DAYS_OF_WEEK[day_idx]))
    /\ current_time' = DayStart
    /\ ev_idx' = 1
    /\ pc' = "event"
    /\ UNCHANGED <<schedule, day_idx, gaps>>
    /\ UNCHANGED mutualVars
    /\ UNCHANGED s3Vars

\* for event in day_events: ...
SweepEvent ==
    /\ pc = "event"
    /\ ev_idx <= Len(day_events)
    /\ LET r == SweepBody(DAYS_OF_WEEK[day_idx], current_time, gaps, day_events[ev_idx])
       IN  /\ gaps' = r.gaps
           /\ current_time' = r.current_time
    /\ ev_idx' = ev_idx + 1
    /\ UNCHANGED <<schedule, pc, day_idx, day_events>>
    /\ UNCHANGED mutualVars
    /\ UNCHANGED s3Vars

\* day_events is exhausted: on to the next day
EndDay ==
    /\ pc = "event"
    /\ ev_idx > Len(day_events)
    /\ day_idx' = day_idx + 1
    /\ pc' = "day"
    /\ UNCHANGED <<schedule, day_events, ev_idx, current_time, gaps>>
    /\ UNCHANGED mutualVars
    /\ UNCHANGED s3Vars

\* return gaps
ReturnGaps ==
    /\ pc = "day"
    /\ day_idx > Len(DAYS_OF_WEEK)
    /\ pc' = "done"
    /\ UNCHANGED <<schedule, day_idx, day_events, ev_idx, current_time, gaps>>
    /\ UNCHANGED mutualVars
    /\ UNCHANGED s3Vars

NextGaps == StartDay \/ SweepEvent \/ EndDay \/ ReturnGaps

SpecGaps == InitGaps /\ [][NextGaps]_vars

-----------------------------------------------------------------------------
(* intersect_two_gap_lists and find_mutual_gaps *)

\* The dict appended to intersection (constant strings left out as above).
MutualRecord(d, s, e) ==
    [day |-> d, start |-> s, end |-> e, duration |-> e - s, is_mutual |-> TRUE]

\* start = max(g1['start'], g2['start'])
MutualStartOfFirst(g1, g2) == g1.start
MutualStart(g1, g2) == Max(g1.start, g2.start)

\* end = min(g1['end'], g2['end'])
MutualEndOfSecond(g1, g2) == g2.end
MutualEnd(g1, g2) == Min(g1.end, g2.end)

\* if end - start >= 0.5
MutualLongEnoughStrict(duration) == duration > MinMutual
MutualLongEnough(duration) == duration >= MinMutual

\* The body of the inner loop: what the pair (g1, g2) appends.
PairIntersection(g1, g2) ==
    IF /\ g1.day = g2.day
       /\ MutualLongEnough(MutualEnd(g1, g2) - MutualStart(g1, g2))
    THEN <<MutualRecord(g1.day, MutualStart(g1, g2), MutualEnd(g1, g2))>>
    ELSE <<>>

\* for g2 in list2, from position j on
RECURSIVE InnerLoop(_, _, _)
InnerLoop(g1, list2, j) ==
    IF j > Len(list2) THEN <<>>
    ELSE PairIntersection(g1, list2[j]) \o InnerLoop(g1, list2, j + 1)

\* for g1 in list1, from position i on
RECURSIVE OuterLoop(_, _, _)
OuterLoop(list1, list2, i) ==
    IF i > Len(list1) THEN <<>>
    ELSE InnerLoop(list1[i], list2, 1) \o OuterLoop(list1, list2, i + 1)

IntersectTwoGapLists(list1, list2) == OuterLoop(list1, list2, 1)

\* current_mutual = intersect_two_gap_lists(current_mutual, next_list)
FoldStepKeepOnEmpty(cur, next_list) ==
    IF IntersectTwoGapLists(cur, next_list) = <<>> THEN cur
    ELSE IntersectTwoGapLists(cur, next_list)
FoldStep(cur, next_list) == IntersectTwoGapLists(cur, next_list)

\* for next_list in all_gap_lists[1:], from position k on, with the break
RECURSIVE FoldFrom(_, _, _)
FoldFrom(lists, k, cur) ==
    IF k > Len(lists) THEN cur
    ELSE LET nxt == FoldStep(cur, lists[k])
         IN  IF nxt = <<>> THEN nxt ELSE FoldFrom(lists, k + 1, nxt)

\* find_mutual_gaps as a function of its argument.
FindMutualGaps(lists) ==
    IF lists = <<>> THEN <<>> ELSE FoldFrom(lists, 2, lists[1])

-----------------------------------------------------------------------------
(* Inputs of the comparison *)

\* Classes of the compared people: around the 30-minute threshold (08:30 and
\* 08:31 against 09:00), a class filling the window, and a second day.
MutualEvents ==
    {Event("Mon", 540, 600), Event("Mon", 420, 510), Event("Mon", 420, 511),
     Event("Mon", 600, 660), Event("Mon", 1200, 1260), Event("Mon", 480, 1200),
     Event("Tue", 540, 600)}

\* a is listed before b: later classes first, so that the inputs are unsorted.
ListedBefore(a, b) ==
    \/ a.start > b.start
    \/ a.start = b.start /\ a.end > b.end
    \/ a.start = b.start /\ a.end = b.end /\ a.day = "Tue" /\ b.day = "Mon"

\* The schedules a person can have: none, one or two classes, or a scenario.
MutualSchedules ==
    {<<>>} \cup {<<a>> : a \in MutualEvents}
        \cup UNION {{<<a, b>> : b \in {c \in MutualEvents : ListedBefore(a, c)}} :
                        a \in MutualEvents}
        \cup {ScenarioA, ScenarioB}

\* schedules_map holds "Me", "Friend 1" and, when enabled, "Friend 2".
MinPeople == 2
MaxPeople == 3

PipelineInputs == UNION {[1..n -> MutualSchedules] : n \in MinPeople..MaxPeople}

\* Gap lists handed to find_mutual_gaps directly, among them lists that
\* calculate_gaps does not produce (a repeated gap, overlapping gaps, days out
\* of order).
DirectGapLists ==
    {<<>>,
     <<GapRecord("Mon", 480, 540)>>,
     <<GapRecord("Mon", 480, 540), GapRecord("Mon", 480, 540)>>,
     <<GapRecord("Mon", 480, 540), GapRecord("Mon", 480, 570)>>,
     <<GapRecord("Mon", 480, 495)>>,
     <<GapRecord("Mon", 510, 600)>>,
     <<GapRecord("Mon", 511, 600)>>,
     <<GapRecord("Tue", 480, 540), GapRecord("Mon", 480, 600)>>}

-----------------------------------------------------------------------------
(* The comparison, one fold step per step *)

InitMutual ==
    /\ schedule = <<>>
    /\ pc = "idle"
    /\ day_idx = 1
    /\ day_events = <<>>
    /\ ev_idx = 1
    /\ current_time = DayStart
    /\ gaps = <<>>
    /\ next_idx = 0
    /\ current_mutual = <<>>
    /\ data = <<>>
    /\ week_date_str = <<>>
    /\ filtered_items = <<>>
    /\ item_idx = 1
    /\ spc = "idle"
    /\ \/ /\ schedules_map \in PipelineInputs
          /\ all_gap_lists = <<>>
          /\ mpc = "calc"
       \/ /\ schedules_map = <<>>
          /\ all_gap_lists \in SeqsUpTo(DirectGapLists, MaxLists)
          /\ mpc = "start"

\* if not info["data"]: st.warning(...); all_found = False
WarnNoClasses ==
    /\ mpc = "calc"
    /\ \E i \in 1..Len(schedules_map) : schedules_map[i] = <<>>
    /\ mpc' = "warn"
    /\ UNCHANGED <<schedules_map, all_gap_lists, next_idx, current_mutual>>
    /\ UNCHANGED gapVars
    /\ UNCHANGED s3Vars

\* if all_found: all_gap_lists.append(calculate_gaps(info["data"])) for everyone
CalcAllGaps ==
    /\ mpc = "calc"
    /\ \A i \in 1..Len(schedules_map) : schedules_map[i] # <<>>
    /\ all_gap_lists' = [i \in 1..Len(schedules_map) |-> CalculateGaps(schedules_map[i])]
    /\ mpc' = "start"
    /\ UNCHANGED <<schedules_map, next_idx, current_mutual>>
    /\ UNCHANGED gapVars
    /\ UNCHANGED s3Vars

\* if not all_gap_lists: return []
ReturnNoLists ==
    /\ mpc = "start"
    /\ all_gap_lists = <<>>
    /\ current_mutual' = <<>>
    /\ mpc' = "done"
    /\ UNCHANGED <<schedules_map, all_gap_lists, next_idx>>
    /\ UNCHANGED gapVars
    /\ UNCHANGED s3Vars

\* current_mutual = all_gap_lists[0]
TakeFirstList ==
    /\ mpc = "start"
    /\ all_gap_lists # <<>>
    /\ current_mutual' = all_gap_lists[1]
    /\ next_idx' = 2
    /\ mpc' = "loop"
    /\ UNCHANGED <<schedules_map, all_gap_lists>>
    /\ UNCHANGED gapVars
    /\ UNCHANGED s3Vars

\* for next_list in all_gap_lists[1:]: intersect; if not current_mutual: break
IntersectNext ==
    /\ mpc = "loop"
    /\ next_idx <= Len(all_gap_lists)
    /\ current_mutual' = FoldStep(current_mutual, all_gap_lists[next_idx])
    /\ IF current_mutual' = <<>>
         THEN mpc' = "done" /\ next_idx' = next_idx
         ELSE mpc' = "loop" /\ next_idx' = next_idx + 1
    /\ UNCHANGED <<schedules_map, all_gap_lists>>
    /\ UNCHANGED gapVars
    /\ UNCHANGED s3Vars

\* return current_mutual
ReturnMutual ==
    /\ mpc = "loop"
    /\ next_idx > Len(all_gap_lists)
    /\ mpc' = "done"
    /\ UNCHANGED <<schedules_map, all_gap_lists, next_idx, current_mutual>>
    /\ UNCHANGED gapVars
    /\ UNCHANGED s3Vars

NextMutual ==
    \/ WarnNoClasses
    \/ CalcAllGaps
    \/ ReturnNoLists
    \/ TakeFirstList
    \/ IntersectNext
    \/ ReturnMutual

SpecMutual == InitMutual /\ [][NextMutual]_vars

-----------------------------------------------------------------------------
(* parse_iso_time and process_s3_schedule *)

\* A value that may be None is a sequence of length at most one.
\* The value of a TIME_*_ISO key: absent (item.get gives None), a string that
\* is no ISO datetime, or an ISO datetime string, given by its fields.  The
\* date is a day count, so that date order and timedelta(days=n) are integer
\* order and addition.
NoStamp == [kind |-> "none", date |-> 0, hour |-> 0, minute |-> 0]
TextStamp == [kind |-> "text", date |-> 0, hour |-> 0, minute |-> 0]
IsoStamp(d, h, m) == [kind |-> "iso", date |-> d, hour |-> h, minute |-> m]

\* item.get(key) of an absent key
Missing == "<missing>"

\* datetime.fromisoformat(s) returns instead of raising
FromIsoFormatOk(ts) ==
    /\ ts.kind = "iso"
    /\ ts.hour \in 0..23
    /\ ts.minute \in 0..59

\* parse_iso_time: dt.hour + dt.minute / 60, in minutes; None on any exception
ParseIsoTime(ts) ==
    IF FromIsoFormatOk(ts) THEN <<ts.hour * 60 + ts.minute>> ELSE <<>>

\* day_map.get(raw_day)
DayMap(raw_day) ==
    CASE raw_day = "MON" -> <<"Mon">>
      [] raw_day = "TUE" -> <<"Tue">>
      [] raw_day = "WED" -> <<"Wed">>
      [] raw_day = "THU" -> <<"Thu">>
      [] raw_day = "FRI" -> <<"Fri">>
      [] OTHER -> <<>>

\* week_end_dt = week_start_dt + timedelta(days=6)
WeekEndNextMonday(week_start_dt) == week_start_dt + 7
WeekEnd(week_start_dt) == week_start_dt + 6

\* item.get('INTAKE') != intake_code or item.get('GROUPING') != group_code
OtherIntakeOrGroup(item, intake_code, group_code) ==
    item.INTAKE # intake_code \/ item.GROUPING # group_code

\* week_start_dt <= event_dt <= week_end_dt
InTargetWeek(item, week_start_dt) ==
    /\ week_start_dt <= item.TIME_FROM_ISO.date
    /\ item.TIME_FROM_ISO.date <= WeekEnd(week_start_dt)

\* not day or start is None or end is None
Unusable(item) ==
    \/ DayMap(item.DAY) = <<>>
    \/ ParseIsoTime(item.TIME_FROM_ISO) = <<>>
    \/ ParseIsoTime(item.TIME_TO_ISO) = <<>>

\* The dict appended to schedule (day, start, end; duration, subject, type and
\* location are not read by calculate_gaps and are left out).
ScheduleRecord(item) ==
    Event(DayMap(item.DAY)[1],
          ParseIsoTime(item.TIME_FROM_ISO)[1],
          ParseIsoTime(item.TIME_TO_ISO)[1])

-----------------------------------------------------------------------------
(* Inputs of process_s3_schedule *)

\* The intake and group asked for.
IntakeCode == "UC1F"
GroupCode == "G1"

RawItem(intake, grouping, day, from, to) ==
    [INTAKE |-> intake, GROUPING |-> grouping, DAY |-> day,
     TIME_FROM_ISO |-> from, TIME_TO_ISO |-> to]

\* The target week starts on day 7 (a Monday) and ends on day 13; days 6 and
\* 14 are the Sunday before and the Monday after.
WeekChoices == {<<>>, <<7>>}

ItemPool ==
    {\* well-formed classes inside the week, on its first and last day
     RawItem("UC1F", "G1", "MON", IsoStamp(7, 9, 0), IsoStamp(7, 10, 30)),
     RawItem("UC1F", "G1", "FRI", IsoStamp(13, 8, 15), IsoStamp(13, 9, 0)),
     \* the same class one week later and a class on the day before the week
     RawItem("UC1F", "G1", "MON", IsoStamp(14, 9, 0), IsoStamp(14, 10, 30)),
     RawItem("UC1F", "G1", "TUE", IsoStamp(6, 10, 0), IsoStamp(6, 11, 0)),
     \* another intake, another group, no INTAKE key
     RawItem("UC2F", "G1", "MON", IsoStamp(7, 9, 0), IsoStamp(7, 10, 30)),
     RawItem("UC1F", "G2", "WED", IsoStamp(9, 9, 0), IsoStamp(9, 10, 30)),
     RawItem(Missing, "G1", "WED", IsoStamp(9, 9, 0), IsoStamp(9, 10, 30)),
     \* weekend day, unrecognised day token, no DAY key
     RawItem("UC1F", "G1", "SAT", IsoStamp(12, 9, 0), IsoStamp(12, 10, 0)),
     RawItem("UC1F", "G1", "Mon", IsoStamp(7, 14, 0), IsoStamp(7, 15, 0)),
     RawItem("UC1F", "G1", Missing, IsoStamp(8, 14, 0), IsoStamp(8, 15, 0)),
     \* start timestamp absent or unparseable, end timestamp unparseable
     RawItem("UC1F", "G1", "THU", NoStamp, IsoStamp(10, 10, 0)),
     RawItem("UC1F", "G1", "THU", TextStamp, IsoStamp(10, 10, 0)),
     RawItem("UC1F", "G1", "THU", IsoStamp(10, 9, 0), IsoStamp(10, 25, 0)),
     \* end before start, end equal to start
     RawItem("UC1F", "G1", "WED", IsoStamp(9, 10, 0), IsoStamp(9, 9, 0)),
     RawItem("UC1F", "G1", "WED", IsoStamp(9, 11, 0), IsoStamp(9, 11, 0))}

-----------------------------------------------------------------------------
(* process_s3_schedule, one loop iteration per step *)

InitS3 ==
    /\ schedule = <<>>
    /\ pc = "idle"
    /\ day_idx = 1
    /\ day_events = <<>>
    /\ ev_idx = 1
    /\ current_time = DayStart
    /\ gaps = <<>>
    /\ schedules_map = <<>>
    /\ all_gap_lists = <<>>
    /\ mpc = "idle"
    /\ next_idx = 0
    /\ current_mutual = <<>>
    /\ data \in SeqsUpTo(ItemPool, MaxItems)
    /\ week_date_str \in WeekChoices
    /\ filtered_items = <<>>
    /\ item_idx = 1
    /\ spc = "filter"

\* if item.get('INTAKE') != intake_code or ...: continue
FilterSkipOther ==
    /\ spc = "filter"
    /\ item_idx <= Len(data)
    /\ OtherIntakeOrGroup(data[item_idx], IntakeCode, GroupCode)
    /\ item_idx' = item_idx + 1
    /\ UNCHANGED <<data, week_date_str, filtered_items, spc>>
    /\ UNCHANGED gapVars
    /\ UNCHANGED mutualVars

\* if week_start_dt: ... except: continue
FilterSkipNoDate ==
    /\ spc = "filter"
    /\ item_idx <= Len(data)
    /\ ~ OtherIntakeOrGroup(data[item_idx], IntakeCode, GroupCode)
    /\ week_date_str # <<>>
    /\ ~ FromIsoFormatOk(data[item_idx].TIME_FROM_ISO)
    /\ item_idx' = item_idx + 1
    /\ UNCHANGED <<data, week_date_str, filtered_items, spc>>
    /\ UNCHANGED gapVars
    /\ UNCHANGED mutualVars

\* if not (week_start_dt <= event_dt <= week_end_dt): continue
FilterSkipOtherWeek ==
    /\ spc = "filter"
    /\ item_idx <= Len(data)
    /\ ~ OtherIntakeOrGroup(data[item_idx], IntakeCode, GroupCode)
    /\ week_date_str # <<>>
    /\ FromIsoFormatOk(data[item_idx].TIME_FROM_ISO)
    /\ ~ InTargetWeek(data[item_idx], week_date_str[1])
    /\ item_idx' = item_idx + 1
    /\ UNCHANGED <<data, week_date_str, filtered_items, spc>>
    /\ UNCHANGED gapVars
    /\ UNCHANGED mutualVars

\* filtered_items.append(item)
FilterKeep ==
    /\ spc = "filter"
    /\ item_idx <= Len(data)
    /\ ~ OtherIntakeOrGroup(data[item_idx], IntakeCode, GroupCode)
    /\ \/ week_date_str = <<>>
       \/ /\ week_date_str # <<>>
          /\ FromIsoFormatOk(data[item_idx].TIME_FROM_ISO)
          /\ InTargetWeek(data[item_idx], week_date_str[1])
    /\ filtered_items' = Append(filtered_items, data[item_idx])
    /\ item_idx' = item_idx + 1
    /\ UNCHANGED <<data, week_date_str, spc>>
    /\ UNCHANGED gapVars
    /\ UNCHANGED mutualVars

\* data is exhausted: for item in filtered_items
FilterEnd ==
    /\ spc = "filter"
    /\ item_idx > Len(data)
    /\ item_idx' = 1
    /\ spc' = "process"
    /\ UNCHANGED <<data, week_date_str, filtered_items>>
    /\ UNCHANGED gapVars
    /\ UNCHANGED mutualVars

\* if not day or start is None or end is None: continue
ProcessSkip ==
    /\ spc = "process"
    /\ item_idx <= Len(filtered_items)
    /\ Unusable(filtered_items[item_idx])
    /\ item_idx' = item_idx + 1
    /\ UNCHANGED <<data, week_date_str, filtered_items, spc>>
    /\ UNCHANGED gapVars
    /\ UNCHANGED mutualVars

\* schedule.append({...})
ProcessAppend ==
    /\ spc = "process"
    /\ item_idx <= Len(filtered_items)
    /\ ~ Unusable(filtered_items[item_idx])
    /\ schedule' = Append(schedule, ScheduleRecord(filtered_items[item_idx]))
    /\ item_idx' = item_idx + 1
    /\ UNCHANGED <<data, week_date_str, filtered_items, spc>>
    /\ UNCHANGED <<pc, day_idx, day_events, ev_idx, current_time, gaps>>
    /\ UNCHANGED mutualVars

\* return schedule
ReturnSchedule ==
    /\ spc = "process"
    /\ item_idx > Len(filtered_items)
    /\ spc' = "done"
    /\ UNCHANGED <<data, week_date_str, filtered_items, item_idx>>
    /\ UNCHANGED gapVars
    /\ UNCHANGED mutualVars

NextS3 ==
    \/ FilterSkipOther
    \/ FilterSkipNoDate
    \/ FilterSkipOtherWeek
    \/ FilterKeep
    \/ FilterEnd
    \/ ProcessSkip
    \/ ProcessAppend
    \/ ReturnSchedule

SpecS3 == InitS3 /\ [][NextS3]_vars

-----------------------------------------------------------------------------
(* Properties of calculate_gaps *)

DayIndex(d) == CHOOSE i \in 1..Len(DAYS_OF_WEEK) : DAYS_OF_WEEK[i] = d

DaySet == {DAYS_OF_WEEK[i] : i \in 1..Len(DAYS_OF_WEEK)}

\* The busy intervals the schedule holds on day d, and the gaps emitted for d.
BusyOn(d) == {schedule[i] : i \in {j \in 1..Len(schedule) : schedule[j].day = d}}
GapsOn(d) == {gaps[i] : i \in {j \in 1..Len(gaps) : gaps[j].day = d}}

\* The (day, start, end) triples of a list of gap records, in order.
Triples(gs) == [i \in 1..Len(gs) |-> <<gs[i].day, gs[i].start, gs[i].end>>]

\* Every instant of the window [08:00, 20:00) lies in a busy interval of day d.
\* It is enough to look at the window start and at the ends of busy intervals.
CoversWindow(d) ==
    \A t \in {DayStart} \cup {b.end : b \in BusyOn(d)} :
        (DayStart <= t /\ t < DayEnd) =>
            \E b \in BusyOn(d) : b.start <= t /\ t < b.end

\* No slack between the classes of day d: every class but the earliest starts
\* no later than some other class that started no later has ended.
BackToBack(d) ==
    \A b \in BusyOn(d) :
        \/ \A c \in BusyOn(d) : b.start <= c.start
        \/ \E c \in BusyOn(d) : c # b /\ c.start <= b.start /\ b.start <= c.end

\* C1: no gap returned by calculate_gaps overlaps a busy interval of the same
\* day, whatever the input order and however the busy intervals overlap, nest
\* or abut.  In particular, on a day whose busy intervals cover the window no
\* gap meets the window, and when the classes are also back-to-back the day
\* has no gap at all.
C1_NoGapOverlapsBusy ==
    /\ \A i \in 1..Len(gaps) : \A b \in BusyOn(gaps[i].day) :
           gaps[i].end <= b.start \/ b.end <= gaps[i].start
    /\ pc = "done" =>
           \A d \in DaySet : CoversWindow(d) =>
               /\ \A g \in GapsOn(d) : g.end <= DayStart \/ DayEnd <= g.start
               /\ BackToBack(d) => GapsOn(d) = {}

\* Overlapping busy intervals on a day that still has a gap, and on another
\* day a schedule that covers the window back-to-back.
C1_Witness ==
    /\ pc = "done"
    /\ \E b \in BusyOn("Mon") : \E c \in BusyOn("Mon") :
           b # c /\ b.start < c.start /\ c.start < b.end
    /\ GapsOn("Mon") # {}

\* A day covered without slack: two back-to-back classes spanning the window.
C1_WitnessCovered ==
    /\ pc = "done"
    /\ Cardinality(BusyOn("Mon")) >= 2
    /\ CoversWindow("Mon")
    /\ BackToBack("Mon")

\* C2: calculate_gaps reports inter-class gaps only: every gap ends exactly at
\* the start of a busy interval of its day, no gap starts at or after the end
\* of the day's last class (so none runs from the last class to 20:00), a day
\* with no busy interval has no gap, and busy [(9,10),(10,11.5)] on Monday
\* gives exactly [(Mon,8,9)].
C2_InterClassOnly ==
    /\ \A i \in 1..Len(gaps) :
           /\ \E b \in BusyOn(gaps[i].day) : b.start = gaps[i].end
           /\ \E b \in BusyOn(gaps[i].day) : gaps[i].start < b.end
           /\ ~ (gaps[i].end = DayEnd /\ \A b \in BusyOn(gaps[i].day) : b.end <= gaps[i].start)
    /\ pc = "done" => \A d \in DaySet : BusyOn(d) = {} => GapsOn(d) = {}
    /\ (pc = "done" /\ schedule = ScenarioBackToBack) =>
           Triples(gaps) = << <<"Mon", 480, 540>> >>

\* The back-to-back scenario has been swept to the end.
C2_Witness ==
    /\ pc = "done"
    /\ schedule = ScenarioBackToBack
    /\ Len(gaps) = 1

\* A class ends before 20:00 and nothing follows it, next to a day without classes.
C2_WitnessNoTrailing ==
    /\ pc = "done"
    /\ BusyOn("Mon") # {}
    /\ \A b \in BusyOn("Mon") : b.end < DayEnd
    /\ BusyOn("Tue") = {}
    /\ BusyOn("Wed") # {}

\* C3: in the sweep, the candidate gap [cursor, event.start) is appended if
\* and only if event.start - cursor >= 15 minutes (0.25 h); whether or not it
\* is appended, the cursor moves to max(cursor, event.end).
C3_ThresholdInclusive ==
    [][(pc = "event" /\ ev_idx <= Len(day_events)) =>
          LET event == day_events[ev_idx]
              cand == event.start - current_time
          IN  /\ cand >= 15 =>
                    /\ Len(gaps') = Len(gaps) + 1
                    /\ SubSeq(gaps', 1, Len(gaps)) = gaps
                    /\ gaps'[Len(gaps')].day = DAYS_OF_WEEK[day_idx]
                    /\ gaps'[Len(gaps')].start = current_time
                    /\ gaps'[Len(gaps')].end = event.start
              /\ cand < 15 => gaps' = gaps
              /\ current_time' = Max(current_time, event.end)]_vars

\* A 14-minute candidate on Monday was dropped and the cursor moved on, and a
\* 15-minute candidate on Wednesday was kept.
C3_Witness ==
    /\ pc = "done"
    /\ BusyOn("Mon") = {Event("Mon", 494, 495)}
    /\ \E g \in GapsOn("Wed") : g.end - g.start = 15
    /\ GapsOn("Mon") = {}

\* C4: every gap returned by calculate_gaps lies inside the day window,
\* 8.0 <= start < end <= 20.0, for busy intervals with 0 <= start < end < 24.
C4_GapsInsideWindow ==
    \A i \in 1..Len(gaps) :
        /\ DayStart <= gaps[i].start
        /\ gaps[i].start < gaps[i].end
        /\ gaps[i].end <= DayEnd

\* C5: the output of calculate_gaps follows the order Mon..Fri of the days,
\* and within a day the gaps ascend strictly by start and are pairwise
\* disjoint (a gap ends no later than the next one starts).
C5_OutputOrdered ==
    \A i \in 1..Len(gaps) : \A j \in 1..Len(gaps) :
        i < j =>
            /\ DayIndex(gaps[i].day) <= DayIndex(gaps[j].day)
            /\ gaps[i].day = gaps[j].day =>
                   /\ gaps[i].start < gaps[j].start
                   /\ gaps[i].end <= gaps[j].start

\* Input given out of order (a later day first, a later class first), with
\* two gaps on one day and a gap on another.
C5_Witness ==
    /\ pc = "done"
    /\ Len(schedule) = 3
    /\ schedule[1].day = "Wed"
    /\ schedule[2].day = "Mon" /\ schedule[3].day = "Mon"
    /\ schedule[2].start > schedule[3].start
    /\ Cardinality(GapsOn("Mon")) = 2
    /\ Cardinality(GapsOn("Wed")) = 1

\* The rearrangements of a sequence of n elements.
Rearrangements(n) ==
    {f \in [1..n -> 1..n] : \A i \in 1..n : \A j \in 1..n : f[i] = f[j] => i = j}

Permuted(s, f) == [i \in 1..Len(s) |-> s[f[i]]]

\* C13: calculate_gaps does not depend on the order of its input: every
\* permutation of the busy intervals, equal starts with different ends
\* included, gives the same sequence of (day, start, end) gaps; and during
\* the sweep of a day the cursor never decreases and is never below 08:00.
C13_InputOrderIrrelevant ==
    /\ [](pc = "done" =>
            \A f \in Rearrangements(Len(schedule)) :
                Triples(CalculateGaps(Permuted(schedule, f))) = Triples(gaps))
    /\ [](current_time >= 480)
    /\ [][(pc = "event" /\ pc' = "event") => current_time' >= current_time]_vars

\* Two classes of one day start together, the longer one listed first, a
\* later class is listed before an earlier one, and the day has a gap.
C13_Witness ==
    /\ pc = "done"
    /\ Len(schedule) = 3
    /\ schedule[1].day = schedule[2].day
    /\ schedule[2].day = schedule[3].day
    /\ \E i \in 1..3 : \E j \in 1..3 :
           i < j /\ schedule[i].start = schedule[j].start /\ schedule[i].end > schedule[j].end
    /\ \E i \in 1..3 : \E j \in 1..3 : i < j /\ schedule[i].start > schedule[j].start
    /\ gaps # <<>>

-----------------------------------------------------------------------------
(* Properties of find_mutual_gaps *)

NumLists == Len(all_gap_lists)

\* The (day, start, end) triples of the returned records, as a set.
ResultTriples == {Triples(current_mutual)[i] : i \in 1..Len(current_mutual)}

MaxOf(S) == CHOOSE x \in S : \A y \in S : y <= x
MinOf(S) == CHOOSE x \in S : \A y \in S : x <= y

LongestList == MaxOf({Len(all_gap_lists[p]) : p \in 1..NumLists} \cup {0})

\* One gap of every participant: f[p] is a position in all_gap_lists[p].
Choices ==
    {f \in [1..NumLists -> 1..LongestList] :
        \A p \in 1..NumLists : f[p] <= Len(all_gap_lists[p])}

ChosenGap(f, p) == all_gap_lists[p][f[p]]

\* The interval common to the chosen gaps: latest start, earliest end.
CommonStart(f) == MaxOf({ChosenGap(f, p).start : p \in 1..NumLists})
CommonEnd(f) == MinOf({ChosenGap(f, p).end : p \in 1..NumLists})

\* The mutual intervals by definition: one gap per participant, all on one
\* day, whose common part lasts at least 30 minutes.
MutualTriples ==
    {<<ChosenGap(f, 1).day, CommonStart(f), CommonEnd(f)>> :
        f \in {g \in Choices :
                  /\ \A p \in 1..NumLists : ChosenGap(g, p).day = ChosenGap(g, 1).day
                  /\ CommonEnd(g) - CommonStart(g) >= 30}}

\* C6: over N >= 2 gap lists find_mutual_gaps returns exactly the mutual
\* intervals: (day, s, e) is returned if and only if one gap per participant
\* can be chosen, all on that day, with s the latest start, e the earliest
\* end and e - s >= 30 minutes; so every returned interval lies inside a gap
\* of every participant on that day.  For the schedules A and B of the
\* scenario the result is [(Mon,8,9),(Mon,11,12.5)].
C6_ExactlyMutualIntervals ==
    /\ (mpc = "done" /\ NumLists >= 2) =>
           /\ ResultTriples = MutualTriples
           /\ \A i \in 1..Len(current_mutual) : \A p \in 1..NumLists :
                  \E k \in 1..Len(all_gap_lists[p]) :
                      /\ all_gap_lists[p][k].day = current_mutual[i].day
                      /\ all_gap_lists[p][k].start <= current_mutual[i].start
                      /\ current_mutual[i].end <= all_gap_lists[p][k].end
    /\ (mpc = "done" /\ schedules_map = <<ScenarioA, ScenarioB>>) =>
           Triples(current_mutual) = << <<"Mon", 480, 540>>, <<"Mon", 660, 750>> >>

\* Three people, a result with two intervals, and a pairing that was dropped.
C6_Witness ==
    /\ mpc = "done"
    /\ NumLists = 3
    /\ Len(current_mutual) = 2
    /\ Cardinality(Choices) > 2

\* The scenario of the specification has been computed.
C6_WitnessScenario ==
    /\ mpc = "done"
    /\ schedules_map = <<ScenarioA, ScenarioB>>
    /\ Len(current_mutual) = 2

\* C7 as stated: for every non-empty sequence of gap lists, one list alone
\* included, every returned interval lasts at least 30 minutes.
C7_AllResultsHalfHour ==
    (mpc = "done" /\ NumLists >= 1) =>
        \A i \in 1..Len(current_mutual) :
            current_mutual[i].end - current_mutual[i].start >= 30

\* C7 amended: for N >= 2 gap lists every returned interval lasts at least 30
\* minutes, an intersection of exactly 30 minutes is returned and a shorter
\* one is not; with exactly one list the result is that list unchanged,
\* whatever the durations of its gaps.
C7_HalfHourFromTwoLists ==
    /\ (mpc = "done" /\ NumLists >= 2) =>
           \A i \in 1..Len(current_mutual) :
               current_mutual[i].end - current_mutual[i].start >= 30
    /\ (mpc = "done" /\ NumLists = 2) =>
           \A i \in 1..Len(all_gap_lists[1]) : \A j \in 1..Len(all_gap_lists[2]) :
               LET g1 == all_gap_lists[1][i]
                   g2 == all_gap_lists[2][j]
                   s == Max(g1.start, g2.start)
                   e == Min(g1.end, g2.end)
               IN  g1.day = g2.day =>
                       /\ e - s = 30 => <<g1.day, s, e>> \in ResultTriples
                       /\ e - s < 30 => <<g1.day, s, e>> \notin ResultTriples
    /\ (mpc = "done" /\ NumLists = 1) => current_mutual = all_gap_lists[1]

\* Two lists whose gaps meet for exactly 30 minutes.
C7_Witness ==
    /\ mpc = "done"
    /\ NumLists = 2
    /\ \E i \in 1..Len(current_mutual) :
           current_mutual[i].end - current_mutual[i].start = 30

\* One list alone, holding a gap shorter than 30 minutes.
C7_WitnessOneList ==
    /\ mpc = "done"
    /\ NumLists = 1
    /\ \E i \in 1..Len(current_mutual) :
           current_mutual[i].end - current_mutual[i].start < 30

\* C8: for three gap lists A, B, C produced by calculate_gaps the results for
\* [A,B,C], [C,A,B] and [B,C,A] are the same sequence of (day, start, end).
C8_OrderIndependent ==
    (mpc = "done" /\ Len(schedules_map) = 3) =>
        LET A == all_gap_lists[1]
            B == all_gap_lists[2]
            C == all_gap_lists[3]
        IN  /\ Triples(current_mutual) = Triples(FindMutualGaps(<<C, A, B>>))
            /\ Triples(current_mutual) = Triples(FindMutualGaps(<<B, C, A>>))

\* Three different gap lists from calculate_gaps with a two-interval result.
C8_Witness ==
    /\ mpc = "done"
    /\ Len(schedules_map) = 3
    /\ all_gap_lists[1] # all_gap_lists[2]
    /\ all_gap_lists[2] # all_gap_lists[3]
    /\ all_gap_lists[1] # all_gap_lists[3]
    /\ Len(current_mutual) >= 2

\* Three gap lists whose fold stops early in one order and not in another.
C8_WitnessEarlyStop ==
    /\ mpc = "done"
    /\ Len(schedules_map) = 3
    /\ next_idx = 2
    /\ all_gap_lists[1] # <<>>
    /\ all_gap_lists[2] # <<>>
    /\ IntersectTwoGapLists(all_gap_lists[3], all_gap_lists[1]) # <<>>

\* The left-to-right fold carried through every list, without the break.
RECURSIVE FullFoldFrom(_, _, _)
FullFoldFrom(lists, k, cur) ==
    IF k > Len(lists) THEN cur
    ELSE FullFoldFrom(lists, k + 1, IntersectTwoGapLists(cur, lists[k]))

\* C9: when one of the gap lists is empty, at whatever position, the result is
\* the empty list; and the result always equals that of the full left-to-right
\* fold without the early break.
C9_EmptyListAndBreak ==
    /\ (mpc = "done" /\ \E p \in 1..NumLists : all_gap_lists[p] = <<>>) =>
           current_mutual = <<>>
    /\ (mpc = "done" /\ NumLists >= 1) =>
           current_mutual = FullFoldFrom(all_gap_lists, 2, all_gap_lists[1])

\* The break was taken before the last list, and an empty list was among the
\* lists that were never visited.
C9_Witness ==
    /\ mpc = "done"
    /\ NumLists = 3
    /\ next_idx = 2
    /\ all_gap_lists[1] # <<>>
    /\ all_gap_lists[2] # <<>>
    /\ current_mutual = <<>>

\* An empty list in the middle of the sequence.
C9_WitnessEmptyMiddle ==
    /\ mpc = "done"
    /\ NumLists = 3
    /\ all_gap_lists[1] # <<>>
    /\ all_gap_lists[2] = <<>>
    /\ all_gap_lists[3] # <<>>

\* C10: the result of find_mutual_gaps over N >= 2 gap lists never holds two
\* records with the same (day, start, end), also when a list holds two
\* identical gaps or overlapping gaps.
C10_NoDuplicateIntervals ==
    (mpc = "done" /\ NumLists >= 2) =>
        \A i \in 1..Len(current_mutual) : \A j \in 1..Len(current_mutual) :
            i # j => Triples(current_mutual)[i] # Triples(current_mutual)[j]

-----------------------------------------------------------------------------
(* Properties of process_s3_schedule *)

\* C11: every busy interval returned by process_s3_schedule is well formed:
\* its day is one of Mon..Fri and its start < end; records with an
\* unrecognised or weekend day, an unparseable time or start >= end are
\* dropped while the rest of the batch is still processed.
C11_WellFormedIntervals ==
    \A i \in 1..Len(schedule) :
        /\ schedule[i].day \in DaySet
        /\ schedule[i].start < schedule[i].end

\* The part of C11 that the code keeps: only recognised weekdays and parsed
\* times reach the result.
C11_DayAndTimesParsed ==
    \A i \in 1..Len(schedule) :
        /\ schedule[i].day \in DaySet
        /\ schedule[i].start \in 0..1439
        /\ schedule[i].end \in 0..1439

\* The records behind the schedule built so far: the processed part of
\* filtered_items without the records the second loop skips.
ProcessedItems ==
    SelectSeq(SubSeq(filtered_items, 1,
                     IF spc = "filter" THEN 0
                     ELSE IF spc = "done" THEN Len(filtered_items)
                     ELSE item_idx - 1),
              LAMBDA item :
                  /\ item.DAY \in {"MON", "TUE", "WED", "THU", "FRI"}
                  /\ FromIsoFormatOk(item.TIME_FROM_ISO)
                  /\ FromIsoFormatOk(item.TIME_TO_ISO))

\* C12: with a target week (its Monday) supplied, a record of the selected
\* intake and group is in the result only if its start date lies in
\* [weekMonday, weekMonday + 6 days]; a record whose start timestamp is absent
\* or unparseable is dropped; no record of another intake or group is ever in
\* the result.  Every record of the result stems from a kept item.
C12_WeekFilter ==
    /\ \A i \in 1..Len(filtered_items) :
           /\ filtered_items[i].INTAKE = IntakeCode
           /\ filtered_items[i].GROUPING = GroupCode
           /\ week_date_str # <<>> =>
                  /\ filtered_items[i].TIME_FROM_ISO.kind = "iso"
                  /\ filtered_items[i].TIME_FROM_ISO.date >= week_date_str[1]
                  /\ filtered_items[i].TIME_FROM_ISO.date <= week_date_str[1] + 6
    /\ Len(schedule) = Len(ProcessedItems)
    /\ \A i \in 1..Len(schedule) :
           /\ schedule[i].start =
                  ProcessedItems[i].TIME_FROM_ISO.hour * 60
                      + ProcessedItems[i].TIME_FROM_ISO.minute
           /\ schedule[i].end =
                  ProcessedItems[i].TIME_TO_ISO.hour * 60
                      + ProcessedItems[i].TIME_TO_ISO.minute

\* A week is asked for; the batch holds a class on the last day of the week,
\* the class of the Monday after and a record without start timestamp, and
\* only the first is returned.
C12_Witness ==
    /\ spc = "done"
    /\ week_date_str = <<7>>
    /\ Len(data) = 3
    /\ \E i \in 1..3 : data[i].TIME_FROM_ISO = IsoStamp(13, 8, 15)
    /\ \E i \in 1..3 : data[i].TIME_FROM_ISO = IsoStamp(14, 9, 0)
    /\ \E i \in 1..3 : data[i].TIME_FROM_ISO = NoStamp
    /\ schedule = <<Event("Fri", 495, 540)>>

\* A record of another group next to a kept record, without a target week.
C12_WitnessOtherGroup ==
    /\ spc = "done"
    /\ week_date_str = <<>>
    /\ \E i \in 1..Len(data) : data[i].GROUPING = "G2"
    /\ Len(schedule) = 1
    /\ Len(data) = 2

====
